---- MODULE Spec2Model ----
(***************************************************************************)
(* Model of opentopodata/api.py: the location parsers, the cached config   *)
(* and dataset lookups, the three routes and the after-request CORS hook.  *)
(*                                                                         *)
(* Strings the code inspects character by character (the locations query   *)
(* argument) are sequences of one-character strings.  Floats are exact     *)
(* decimals m * 10^e (records [kind, m, e], normalised so that equal       *)
(* values are equal records); "nan" and "inf" are kinds of their own.      *)
(***************************************************************************)
EXTENDS Integers, Sequences, FiniteSets, TLC

VARIABLES
    p_in,       \* arguments of a direct call of _parse_locations
    p_out,      \* what that call returned or raised
    cacheType,  \* CACHE_TYPE chosen at import time (api.py 26-35)
    debug,      \* app.debug
    cfgFile,    \* what config.load_config() yields in this process
    dsFile,     \* what config.load_datasets() yields in this process
    cache,      \* the flask-caching store, by key_prefix
    nLoads,     \* calls made to config.load_config / config.load_datasets
    pc,         \* each worker's position in the request it is serving
    req,        \* each worker's request
    frame,      \* each worker's locals (lats, lons, dataset, value returned)
    resp        \* each worker's response under construction / delivered

vars == <<p_in, p_out, cacheType, debug, cfgFile, dsFile, cache, nLoads,
          pc, req, frame, resp>>

parseVars == <<p_in, p_out>>
appVars == <<cacheType, debug, cfgFile, dsFile, cache, nLoads, pc, req, frame, resp>>

(***************************************************************************)
(* Bounds of the model.                                                    *)
(***************************************************************************)
MaxN == 2          \* largest max_locations_per_request a config may set
MaxSegs == 3       \* most '|'-separated segments in a generated query
MaxCalls == 4      \* cap on the counted config.load_* calls

(***************************************************************************)
(* Program constants (api.py 14-19).                                       *)
(***************************************************************************)
LAT_MIN == -90
LAT_MAX == 90
LON_MIN == -180
LON_MAX == 180
DEFAULT_INTERPOLATION_METHOD == "bilinear"

(***************************************************************************)
(* Character-level helpers: Python's str methods used by the parsers.      *)
(***************************************************************************)
Digits == {"0", "1", "2", "3", "4", "5", "6", "7", "8", "9"}

DigitVal(c) ==
    CASE c = "0" -> 0 [] c = "1" -> 1 [] c = "2" -> 2 [] c = "3" -> 3
      [] c = "4" -> 4 [] c = "5" -> 5 [] c = "6" -> 6 [] c = "7" -> 7
      [] c = "8" -> 8 [] c = "9" -> 9

\* c in s
Contains(s, c) == \E i \in 1..Len(s) : s[i] = c

\* s.find(c) + 1 (0 when absent)
IndexOf(s, c) ==
    IF Contains(s, c)
    THEN CHOOSE i \in 1..Len(s) : s[i] = c /\ \A j \in 1..(i - 1) : s[j] # c
    ELSE 0

\* s.startswith(p)
StartsWith(s, p) == Len(s) >= Len(p) /\ SubSeq(s, 1, Len(p)) = p

\* s.strip(c)
RECURSIVE LStrip(_, _)
LStrip(s, c) == IF s # <<>> /\ Head(s) = c THEN LStrip(Tail(s), c) ELSE s

RECURSIVE RStrip(_, _)
RStrip(s, c) ==
    IF s # <<>> /\ s[Len(s)] = c THEN RStrip(SubSeq(s, 1, Len(s) - 1), c) ELSE s

Strip(s, c) == RStrip(LStrip(s, c), c)

\* s.split(c): always at least one piece, empty pieces kept
RECURSIVE Split(_, _)
Split(s, c) ==
    LET i == IndexOf(s, c)
    IN  IF i = 0 THEN <<s>>
        ELSE <<SubSeq(s, 1, i - 1)>> \o Split(SubSeq(s, i + 1, Len(s)), c)

\* s.split(c, 1) for an s that contains c
Split1(s, c) ==
    LET i == IndexOf(s, c)
    IN  <<SubSeq(s, 1, i - 1), SubSeq(s, i + 1, Len(s))>>

(***************************************************************************)
(* Characters.  The printable ASCII characters are listed in order (32..95 *)
(* and 97..126; a backquote, 96, cannot be written in a string here), so   *)
(* that ord() and the ASCII lower-casing float() applies are computed.     *)
(* Ord, and with it float() and polyline.decode, is defined on these and   *)
(* on tab, newline, form feed and carriage return only.                    *)
(***************************************************************************)
PrintableLow ==
    <<" ", "!", "\"", "#", "$", "%", "&", "'", "(", ")", "*", "+", ",", "-", ".", "/",
      "0", "1", "2", "3", "4", "5", "6", "7", "8", "9", ":", ";", "<", "=", ">", "?",
      "@", "A", "B", "C", "D", "E", "F", "G", "H", "I", "J", "K", "L", "M", "N", "O",
      "P", "Q", "R", "S", "T", "U", "V", "W", "X", "Y", "Z", "[", "\\", "]", "^", "_">>

PrintableHigh ==
    <<"a", "b", "c", "d", "e", "f", "g", "h", "i", "j", "k", "l", "m", "n", "o",
      "p", "q", "r", "s", "t", "u", "v", "w", "x", "y", "z", "{", "|", "}", "~">>

\* ord(c)
Ord(c) ==
    CASE c = "\t" -> 9 [] c = "\n" -> 10 [] c = "\f" -> 12 [] c = "\r" -> 13
      [] \E i \in 1..Len(PrintableLow) : PrintableLow[i] = c ->
            31 + CHOOSE i \in 1..Len(PrintableLow) : PrintableLow[i] = c
      [] OTHER -> 96 + CHOOSE i \in 1..Len(PrintableHigh) : PrintableHigh[i] = c

\* the characters float() strips from both ends, among those Ord is
\* defined on (it also strips vertical tab, 0x1c-0x1f and the non-ASCII
\* spaces)
Whitespace == {" ", "\t", "\n", "\f", "\r"}

\* c.lower() for an ASCII character
LowerOf(c, o) == IF o \in 65..90 THEN PrintableHigh[o - 64] ELSE c

Lower(c) == LowerOf(c, Ord(c))

LowerSeq(s) == [i \in 1..Len(s) |-> Lower(s[i])]

\* s.strip() over Whitespace
RECURSIVE StripSpace(_)
StripSpace(s) ==
    IF s # <<>> /\ Head(s) \in Whitespace THEN StripSpace(Tail(s))
    ELSE IF s # <<>> /\ s[Len(s)] \in Whitespace THEN StripSpace(SubSeq(s, 1, Len(s) - 1))
    ELSE s

(***************************************************************************)
(* Python's float() on a string, api.py 195-200.  A float is kept as the   *)
(* decimal its repr() shows: [kind |-> "num", m, e] is m * 10^e with m not *)
(* a multiple of 10.  float() strips surrounding whitespace, ignores case, *)
(* takes an optional sign, then "nan", "inf", "infinity", or digits with   *)
(* single '_' between digits (PEP 515), an optional '.', and an optional   *)
(* exponent; anything else is a ValueError.  The literal is rounded to a   *)
(* double: at or above 2^1024 - 2^970 it is inf, at or below 2^-1075 it is *)
(* zero (the sign of a zero is not kept), and otherwise a literal of up to *)
(* 10 significant digits whose last digit is worth 1e-323 or more is the   *)
(* shortest decimal that reads back as its double, so repr() shows it      *)
(* unchanged.  A literal finer than the subnormal step 2^-1074 rounds to   *)
(* another decimal, which is left open: the value is "sub", a nonzero      *)
(* float of that sign smaller in magnitude than 2.2e-315.  Literals whose  *)
(* significant digits exceed the 32-bit integers are not evaluated.        *)
(***************************************************************************)
RECURSIVE Pow10(_)
Pow10(k) == IF k <= 0 THEN 1 ELSE 10 * Pow10(k - 1)

RECURSIVE Norm(_, _)
Norm(m, e) ==
    IF m = 0 THEN [kind |-> "num", m |-> 0, e |-> 0]
    ELSE IF m % 10 = 0 THEN Norm(m \div 10, e + 1)
    ELSE [kind |-> "num", m |-> m, e |-> e]

NaN == [kind |-> "nan", m |-> 0, e |-> 0]
Inf(sign) == [kind |-> "inf", m |-> sign, e |-> 0]
Sub(sign) == [kind |-> "sub", m |-> sign, e |-> 0]

\* floor and ceiling of n / 10^k, k >= 0, without leaving 32 bits
Floor10(n, k) == IF k >= 10 THEN (IF n >= 0 THEN 0 ELSE -1) ELSE n \div Pow10(k)
Ceil10(n, k) == -Floor10(-n, k)

\* bound <= v and v <= bound for an integer bound; false for nan, as in Python
IntLe(b, v) ==
    CASE v.kind = "nan" -> FALSE
      [] v.kind = "inf" -> v.m > 0
      [] v.kind = "sub" -> IF v.m > 0 THEN b <= 0 ELSE b < 0
      [] OTHER -> IF v.e >= 0 THEN Ceil10(b, v.e) <= v.m
                  ELSE b <= Floor10(v.m, -v.e)

LeInt(v, b) ==
    CASE v.kind = "nan" -> FALSE
      [] v.kind = "inf" -> v.m < 0
      [] v.kind = "sub" -> IF v.m > 0 THEN 0 < b ELSE 0 <= b
      [] OTHER -> IF v.e >= 0 THEN v.m <= Floor10(b, v.e)
                  ELSE Ceil10(v.m, -v.e) <= b

RECURSIVE DigitsVal(_)
DigitsVal(s) ==
    IF s = <<>> THEN 0
    ELSE 10 * DigitsVal(SubSeq(s, 1, Len(s) - 1)) + DigitVal(s[Len(s)])

RECURSIVE NDigits(_)
NDigits(m) == IF m < 10 THEN 1 ELSE 1 + NDigits(m \div 10)

ValueError == [ok |-> FALSE, v |-> NaN]
FloatOk(v) == [ok |-> TRUE, v |-> v]

NotUnderscore(c) == c # "_"

\* a run of digits, with single underscores allowed between two digits
DigitGroup(s) ==
    /\ s # <<>>
    /\ s[1] \in Digits /\ s[Len(s)] \in Digits
    /\ \A i \in 1..Len(s) : s[i] \in Digits \cup {"_"}
    /\ \A i \in 1..(Len(s) - 1) : ~(s[i] = "_" /\ s[i + 1] = "_")

\* the double nearest to sign * m * 10^e, for m > 0 not a multiple of 10
\* with d digits: inf, zero, a subnormal, or the decimal itself
RoundNormalized(sign, m, e, d) ==
    IF e + d - 1 > 308
       \/ (e + d - 1 = 308 /\ IF d <= 9 THEN m * Pow10(9 - d) >= 179769314
                              ELSE m >= 1797693135)
    THEN Inf(sign)
    ELSE IF e <= -324
    THEN IF e <= -333 \/ m <= 247032822 \div Pow10(e + 332)
         THEN Norm(0, 0)
         ELSE Sub(sign)
    ELSE Norm(sign * m, e)

\* the double nearest to sign * m * 10^e, for m >= 0 without trailing zeros
RoundToDouble(sign, m, e) ==
    IF m = 0 THEN Norm(0, 0) ELSE RoundNormalized(sign, m, e, NDigits(m))

\* the value of a literal from its digits: those of the integer part and
\* the fraction, with and without the trailing zeros, and those of the
\* exponent without leading zeros (9 digits or more are as good as 10^8)
LiteralValue(sign, nFrac, allDigs, digs, esign, expD) ==
    RoundToDouble(sign, DigitsVal(digs),
                  esign * (IF Len(expD) > 8 THEN Pow10(8) ELSE DigitsVal(expD))
                  - nFrac + (Len(allDigs) - Len(digs)))

\* the literal's integer part, fraction and exponent digits, underscores in
ParseGroups(sign, int, frac, hasExp, esign, edig) ==
    IF /\ int = <<>> \/ DigitGroup(int)
       /\ frac = <<>> \/ DigitGroup(frac)
       /\ Len(int) + Len(frac) > 0
       /\ ~hasExp \/ DigitGroup(edig)
    THEN LET fracD == SelectSeq(frac, NotUnderscore)
             allDigs == SelectSeq(int, NotUnderscore) \o fracD
         IN  FloatOk(LiteralValue(sign, Len(fracD), allDigs, RStrip(allDigs, "0"), esign,
                                  LStrip(SelectSeq(edig, NotUnderscore), "0")))
    ELSE ValueError

\* the mantissa split at its '.' (ip, 0 when absent), the exponent at its sign
ParseMantissa(sign, mant, ip, hasExp, expo) ==
    ParseGroups(sign,
                IF ip = 0 THEN mant ELSE SubSeq(mant, 1, ip - 1),
                IF ip = 0 THEN <<>> ELSE SubSeq(mant, ip + 1, Len(mant)),
                hasExp,
                IF expo # <<>> /\ Head(expo) = "-" THEN -1 ELSE 1,
                IF expo # <<>> /\ Head(expo) \in {"+", "-"} THEN Tail(expo) ELSE expo)

\* the literal split at its exponent marker (ie, 0 when absent)
ParseExponent(sign, s, ie) ==
    LET mant == IF ie = 0 THEN s ELSE SubSeq(s, 1, ie - 1)
    IN  ParseMantissa(sign, mant, IndexOf(mant, "."), ie # 0,
                      IF ie = 0 THEN <<>> ELSE SubSeq(s, ie + 1, Len(s)))

\* an unsigned decimal literal with optional exponent
ParseUnsigned(s, sign) == ParseExponent(sign, s, IndexOf(LowerSeq(s), "e"))

\* a stripped literal: the sign, then a name or a number
FloatBody(sign, body, lower) ==
    IF lower = <<"n", "a", "n">> THEN FloatOk(NaN)
    ELSE IF lower \in {<<"i", "n", "f">>, <<"i", "n", "f", "i", "n", "i", "t", "y">>}
    THEN FloatOk(Inf(sign))
    ELSE ParseUnsigned(body, sign)

FloatStripped(t, signed) ==
    FloatBody(IF signed /\ Head(t) = "-" THEN -1 ELSE 1,
              IF signed THEN Tail(t) ELSE t,
              LowerSeq(IF signed THEN Tail(t) ELSE t))

FloatSigned(t) == FloatStripped(t, t # <<>> /\ Head(t) \in {"+", "-"})

\* float(s)
Float(s) == FloatSigned(StripSpace(s))

(***************************************************************************)
(* Errors.  A ClientError's message is kept as its parts: which message    *)
(* (kind), the 1-based position and the offending segment it cites, the    *)
(* count and limit it cites, or the name it cites.                         *)
(***************************************************************************)
Msg(kind, pos, seg, n, limit, name) ==
    [kind |-> kind, pos |-> pos, seg |-> seg, n |-> n, limit |-> limit, name |-> name]

NoMsg == Msg("", 0, <<>>, 0, 0, "")

\* "No locations provided. Add locations in a query string: ..."
MsgNoLocations == Msg("NoLocations", 0, <<>>, 0, 0, "")
\* "Unable to parse locations as polyline."
MsgPolyline == Msg("Polyline", 0, <<>>, 0, 0, "")
\* "Too many locations provided (n), the limit is max_n_locations."
MsgTooMany(n, limit) == Msg("TooMany", 0, <<>>, n, limit, "")
\* "Unable to parse location 'loc' in position i+1. Add locations like ..."
MsgNoComma(seg, pos) == Msg("NoComma", pos, seg, 0, 0, "")
\* "Unable to parse location 'loc' in position i+1."
MsgNotNumeric(seg, pos) == Msg("NotNumeric", pos, seg, 0, 0, "")
\* "... Latitude must be between LAT_MIN and LAT_MAX. Provide locations in lat,lon order."
MsgLatitude(seg, pos) == Msg("Latitude", pos, seg, LAT_MIN, LAT_MAX, "")
\* "... Longitude must be between LON_MIN and LON_MAX."
MsgLongitude(seg, pos) == Msg("Longitude", pos, seg, LON_MIN, LON_MAX, "")

\* what a parser call does: return (lats, lons) or raise ClientError(msg)
Return(lats, lons) == [ok |-> TRUE, msg |-> NoMsg, lats |-> lats, lons |-> lons]
RaiseClientError(msg) == [ok |-> FALSE, msg |-> msg, lats |-> <<>>, lons |-> <<>>]

(***************************************************************************)
(* polyline.decode (the polyline package, called at api.py 139).  A varint *)
(* of seven or more characters exceeds 32 bits and is not evaluated.       *)
(***************************************************************************)
\* _trans(value, index): one zig-zag varint read from 1-based index; an
\* IndexError when the string ends inside it.  mult is 2^shift.
RECURSIVE PolyTrans(_, _, _, _)
PolyTrans(value, index, result, mult) ==
    IF index > Len(value) THEN [ok |-> FALSE, val |-> 0, index |-> index]
    ELSE LET byte == Ord(value[index]) - 63
             res == result + (byte % 32) * mult
         IN  IF byte >= 32 THEN PolyTrans(value, index + 1, res, mult * 32)
             ELSE [ok |-> TRUE,
                   val |-> IF res % 2 = 1 THEN -(res \div 2) - 1 ELSE res \div 2,
                   index |-> index + 1]

\* decode(expression): the list of (lat, lon) pairs, or an exception
RECURSIVE PolyDecodeLoop(_, _, _, _, _)
PolyDecodeLoop(expression, index, lat, lng, coordinates) ==
    IF index > Len(expression) THEN [ok |-> TRUE, coords |-> coordinates]
    ELSE LET a == PolyTrans(expression, index, 0, 1)
             b == PolyTrans(expression, a.index, 0, 1)
         IN  IF ~a.ok \/ ~b.ok THEN [ok |-> FALSE, coords |-> <<>>]
             ELSE PolyDecodeLoop(expression, b.index, lat + a.val, lng + b.val,
                      Append(coordinates,
                             <<Norm(lat + a.val, -5), Norm(lng + b.val, -5)>>))

PolylineDecode(expression) == PolyDecodeLoop(expression, 1, 0, 0, <<>>)

(***************************************************************************)
(* The location parsers (api.py 87-216).  An optional string is a record   *)
(* [isNone, s]: request.args.get returns None for an absent argument.      *)
(***************************************************************************)
None == [isNone |-> TRUE, s |-> <<>>]
Str(s) == [isNone |-> FALSE, s |-> s]

ENC == <<"e", "n", "c", ":">>

\* api.py 116-154
ParsePolylineLocations(locations, max_n_locations) ==
    LET stripped == IF locations # <<>> /\ StartsWith(locations, ENC)
                    THEN SubSeq(locations, 5, Len(locations))
                    ELSE locations
        latlons == PolylineDecode(stripped)
        lats == [i \in 1..Len(latlons.coords) |-> latlons.coords[i][1]]
        lons == [i \in 1..Len(latlons.coords) |-> latlons.coords[i][2]]
        n_locations == Len(lats)
    IN  IF ~latlons.ok THEN RaiseClientError(MsgPolyline)
        ELSE IF n_locations > max_n_locations
        THEN RaiseClientError(MsgTooMany(n_locations, max_n_locations))
        ELSE Return(lats, lons)

\* ParseSegment checking the longitude bounds before the latitude bounds
ParseSegmentLonFirst(seg, pos) ==
    IF ~Contains(seg, ",") THEN [ok |-> FALSE, msg |-> MsgNoComma(seg, pos), lat |-> NaN, lon |-> NaN]
    ELSE LET parts == Split1(seg, ",")
             lat == Float(parts[1])
             lon == Float(parts[2])
         IN  IF ~lat.ok \/ ~lon.ok
             THEN [ok |-> FALSE, msg |-> MsgNotNumeric(seg, pos), lat |-> NaN, lon |-> NaN]
             ELSE IF ~(IntLe(LON_MIN, lon.v) /\ LeInt(lon.v, LON_MAX))
             THEN [ok |-> FALSE, msg |-> MsgLongitude(seg, pos), lat |-> NaN, lon |-> NaN]
             ELSE IF ~(IntLe(LAT_MIN, lat.v) /\ LeInt(lat.v, LAT_MAX))
             THEN [ok |-> FALSE, msg |-> MsgLatitude(seg, pos), lat |-> NaN, lon |-> NaN]
             ELSE [ok |-> TRUE, msg |-> NoMsg, lat |-> lat.v, lon |-> lon.v]

\* api.py 183-214: one iteration of the loop, for the segment in (1-based)
\* position pos: the ClientError it raises, or the (lat, lon) it appends
ParseSegment(seg, pos) ==
    IF ~Contains(seg, ",") THEN [ok |-> FALSE, msg |-> MsgNoComma(seg, pos), lat |-> NaN, lon |-> NaN]
    ELSE LET parts == Split1(seg, ",")
             lat == Float(parts[1])
             lon == Float(parts[2])
         IN  IF ~lat.ok \/ ~lon.ok
             THEN [ok |-> FALSE, msg |-> MsgNotNumeric(seg, pos), lat |-> NaN, lon |-> NaN]
             ELSE IF ~(IntLe(LAT_MIN, lat.v) /\ LeInt(lat.v, LAT_MAX))
             THEN [ok |-> FALSE, msg |-> MsgLatitude(seg, pos), lat |-> NaN, lon |-> NaN]
             ELSE IF ~(IntLe(LON_MIN, lon.v) /\ LeInt(lon.v, LON_MAX))
             THEN [ok |-> FALSE, msg |-> MsgLongitude(seg, pos), lat |-> NaN, lon |-> NaN]
             ELSE [ok |-> TRUE, msg |-> NoMsg, lat |-> lat.v, lon |-> lon.v]

\* ParseLatlonLoop dropping a segment it cannot parse instead of raising
RECURSIVE ParseLatlonLoopSkip(_, _, _, _)
ParseLatlonLoopSkip(segs, pos, lats, lons) ==
    IF pos > Len(segs) THEN Return(lats, lons)
    ELSE LET r == ParseSegment(segs[pos], pos)
         IN  IF ~r.ok THEN ParseLatlonLoopSkip(segs, pos + 1, lats, lons)
             ELSE ParseLatlonLoopSkip(segs, pos + 1, Append(lats, r.lat), Append(lons, r.lon))

\* api.py 181-216: the loop over enumerate(locations)
RECURSIVE ParseLatlonLoop(_, _, _, _)
ParseLatlonLoop(segs, pos, lats, lons) ==
    IF pos > Len(segs) THEN Return(lats, lons)
    ELSE LET r == ParseSegment(segs[pos], pos)
         IN  IF ~r.ok THEN RaiseClientError(r.msg)
             ELSE ParseLatlonLoop(segs, pos + 1, Append(lats, r.lat), Append(lons, r.lon))

\* ParseLatlonLocations checking the number of points after parsing them
ParseLatlonLocationsLate(locations, max_n_locations) ==
    LET segs == Split(Strip(locations, "|"), "|")
        n_locations == Len(segs)
        r == ParseLatlonLoop(segs, 1, <<>>, <<>>)
    IN  IF ~r.ok THEN r
        ELSE IF n_locations > max_n_locations
        THEN RaiseClientError(MsgTooMany(n_locations, max_n_locations))
        ELSE r

\* api.py 157-216
ParseLatlonLocations(locations, max_n_locations) ==
    LET segs == Split(Strip(locations, "|"), "|")
        n_locations == Len(segs)
    IN  IF n_locations > max_n_locations
        THEN RaiseClientError(MsgTooMany(n_locations, max_n_locations))
        ELSE ParseLatlonLoop(segs, 1, <<>>, <<>>)

\* api.py 87-113
ParseLocations(locations, max_n_locations) ==
    IF locations.isNone \/ locations.s = <<>> THEN RaiseClientError(MsgNoLocations)
    ELSE IF Contains(locations.s, ",")
    THEN ParseLatlonLocations(locations.s, max_n_locations)
    ELSE ParsePolylineLocations(locations.s, max_n_locations)

(***************************************************************************)
(* Query strings the model feeds the parsers.                              *)
(***************************************************************************)
PIPE == <<"|">>

\* segments of a delimited query: in range (both boundaries), latitude and
\* longitude both out of range, longitude out, latitude just out, no comma,
\* not numeric, empty
SegTokens ==
    { <<"9", "0", ",", "1", "8", "0">>,
      <<"-", "9", "0", ",", "-", "1", "8", "0">>,
      <<"9", "1", ",", "1", "8", "1">>,
      <<"0", ",", "1", "8", "0", ".", "1">>,
      <<"-", "9", "0", ".", "1", ",", "0">>,
      <<"7">>,
      <<"x", ",", "1">>,
      <<>> }

RECURSIVE JoinPipe(_)
JoinPipe(segs) ==
    IF Len(segs) = 1 THEN segs[1]
    ELSE segs[1] \o PIPE \o JoinPipe(Tail(segs))

\* 1..MaxSegs segments joined by '|', with or without a leading and a
\* trailing '|'
DelimitedQueries ==
    { lead \o JoinPipe(segs) \o trail :
        lead \in {<<>>, PIPE}, trail \in {<<>>, PIPE},
        segs \in UNION {[1..k -> SegTokens] : k \in 1..MaxSegs} }

\* further single queries: other float spellings (nan, inf, exponents,
\* underscores between digits and misplaced, upper case, surrounding and
\* inner whitespace, overflow to inf, underflow to zero and to a
\* subnormal), two commas, a lone prefix, polylines of 0..3 points,
\* truncated polylines, separators only
OtherQueries ==
    { <<"n", "a", "n", ",", "0">>,
      <<"0", ",", "-", "i", "n", "f">>,
      <<"9", "e", "1", ",", "1", ".", "8", "e", "2">>,
      <<"9", "0", ".", "0", "0", "0", "1", ",", "0">>,
      <<"0", ",", "-", "1", "8", "0", ".", "1">>,
      <<"9", "_", "0", ",", "1", "_", "8", "_", "0">>,
      <<"1", "_", "0", ".", "5", ",", "0">>,
      <<"1", "_", "_", "0", ",", "0">>,
      <<"_", "1", ",", "0">>,
      <<"9", "_", "1", ",", "0">>,
      <<"9", "0", ",", " ", "1", "8", "0">>,
      <<" ", "9", "0", ",", "1", "8", "0", " ">>,
      <<"1", "E", "1", ",", "1", "_", "0", "E", "1">>,
      <<"N", "a", "N", ",", "0">>,
      <<"0", ",", "-", "I", "n", "f", "i", "n", "i", "t", "y">>,
      <<"9", " ", "0", ",", "0">>,
      <<"1", "e", "4", "0", "0", ",", "0">>,
      <<"0", ",", "1", "e", "-", "4", "0", "0">>,
      <<"5", "e", "-", "3", "2", "4", ",", "-", "3", "e", "-", "3", "2", "4">>,
      <<"1", ",", "2", ",", "3">>,
      <<",">>,
      ENC,
      ENC \o <<"?", "?">>,
      ENC \o <<"1", ",", "2">>,
      <<"?", "?">>,
      <<"?", "?", "@", "A">>,
      <<"?", "?", "@", "A", "_", "@", "?">>,
      <<"_", "?">>,
      <<"?">>,
      PIPE \o PIPE }

Queries == {None} \cup {Str(q) : q \in DelimitedQueries \cup OtherQueries}

(***************************************************************************)
(* The app's environment: configuration, dataset registry, backend.        *)
(***************************************************************************)
Workers == {1, 2}

\* backend.INTERPOLATION_METHODS
INTERPOLATION_METHODS == {"nearest", "bilinear", "cubic"}

\* config.load_config(): a config dict, or ConfigError (ok = FALSE)
ConfigDict(max_n, origin) ==
    [ok |-> TRUE, max_locations_per_request |-> max_n,
     access_control_allow_origin |-> origin]
ConfigBroken == [ok |-> FALSE, max_locations_per_request |-> 0,
                 access_control_allow_origin |-> ""]
Origins == {"", "*"}
ConfigFiles == {ConfigBroken} \cup {ConfigDict(n, o) : n \in 1..MaxN, o \in Origins}

\* config.load_datasets(): {name: Dataset}, or ConfigError (ok = FALSE)
DatasetsBroken == [ok |-> FALSE, names |-> {}]
DatasetFiles == {DatasetsBroken, [ok |-> TRUE, names |-> {"test-dataset"}]}

\* elevations the backend can report for a point (None for no data)
Elevations == {"None", "815.0"}

(***************************************************************************)
(* Exceptions and responses.                                               *)
(***************************************************************************)
Exc(type, msg) == [type |-> type, msg |-> msg]
NoExc == Exc("none", NoMsg)

\* "Invalid interpolation method 'method' not recognized. Valid ...: ..."
MsgInterpolation(method) == Msg("Interpolation", 0, <<>>, 0, 0, method)
\* "Dataset 'name' not in config."
MsgDataset(name) == Msg("Dataset", 0, <<>>, 0, 0, name)
\* "Server error, please retry request."
MsgServerError == Msg("ServerErrorRetry", 0, <<>>, 0, 0, "")
\* str(e) of exceptions raised outside api.py
MsgConfigError == Msg("ConfigErrorText", 0, <<>>, 0, 0, "")
MsgInputError == Msg("BackendInputErrorText", 0, <<>>, 0, 0, "")
MsgInternal == Msg("InternalExceptionText", 0, <<>>, 0, 0, "")
\* the help text of /v1/
MsgHelp == Msg("Help", 0, <<>>, 0, 0, "")

ACAO == "access-control-allow-origin"

\* a response: status code, JSON body, headers set so far.  shape tells the
\* bodies apart: "none" (no response), "health" ({"ok": true}), "envelope"
\* ({"status", "error"}), "results" ({"status", "results"}), "html" (Flask's
\* own InternalServerError page), "raised" (the exception left the app)
Response(code, shape, status, error, results) ==
    [code |-> code, shape |-> shape, status |-> status, error |-> error,
     results |-> results, headers |-> {}]

NoResponse == Response(0, "none", "", NoMsg, <<>>)
ErrorEnvelope(code, status, error) == Response(code, "envelope", status, error, <<>>)
FlaskInternalServerError == Response(500, "html", "", NoMsg, <<>>)
Propagated == Response(0, "raised", "", NoMsg, <<>>)

\* BuildResults pairing each elevation with the point mirrored from the end
BuildResultsReversed(elevations, lats, lons) ==
    LET n == IF Len(elevations) < Len(lats) THEN Len(elevations) ELSE Len(lats)
    IN  [i \in 1..n |->
            [elevation |-> elevations[i], lat |-> lats[n + 1 - i], lng |-> lons[n + 1 - i]]]

\* api.py 285-289: zip(elevations, lats, lons) into the results array
BuildResults(elevations, lats, lons) ==
    LET n == IF Len(elevations) < Len(lats) THEN Len(elevations) ELSE Len(lats)
    IN  [i \in 1..n |->
            [elevation |-> elevations[i], lat |-> lats[i], lng |-> lons[i]]]

\* HandleException passing str(e) of an unexpected exception to the client
HandleExceptionLeaky(e, isDebug) ==
    IF e.type \in {"ClientError", "InputError"}
    THEN [raised |-> FALSE, resp |-> ErrorEnvelope(400, "INVALID_REQUEST", e.msg)]
    ELSE IF isDebug /\ e.type # "ConfigError"
    THEN [raised |-> TRUE, resp |-> Propagated]
    ELSE [raised |-> FALSE, resp |-> ErrorEnvelope(500, "SERVER_ERROR", e.msg)]

\* api.py 291-300: the except clauses of get_elevation.  raised = TRUE: the
\* exception is re-raised (debug mode)
HandleException(e, isDebug) ==
    IF e.type \in {"ClientError", "InputError"}
    THEN [raised |-> FALSE, resp |-> ErrorEnvelope(400, "INVALID_REQUEST", e.msg)]
    ELSE IF e.type = "ConfigError"
    THEN [raised |-> FALSE, resp |-> ErrorEnvelope(500, "SERVER_ERROR", e.msg)]
    ELSE IF isDebug
    THEN [raised |-> TRUE, resp |-> Propagated]
    ELSE [raised |-> FALSE, resp |-> ErrorEnvelope(500, "SERVER_ERROR", MsgServerError)]

\* api.py 69-84
ValidateInterpolation(method) ==
    IF method \notin INTERPOLATION_METHODS
    THEN Exc("ClientError", MsgInterpolation(method))
    ELSE NoExc

(***************************************************************************)
(* Requests.                                                               *)
(***************************************************************************)
Routes == {"/", "/v1/", "/v1/<dataset_name>"}

Request(route, dataset_name, has_interpolation, interpolation, locations) ==
    [route |-> route, dataset_name |-> dataset_name,
     has_interpolation |-> has_interpolation, interpolation |-> interpolation,
     locations |-> locations]

NoRequest == Request("", "", FALSE, "", None)

PointA == <<"9", "0", ",", "1", "8", "0">>
PointB == <<"-", "9", "0", ",", "-", "1", "8", "0">>

\* k valid points, A|B|A|...
ValidQuery(k) == JoinPipe([i \in 1..k |-> IF i % 2 = 1 THEN PointA ELSE PointB])

\* queries sent to the elevation route: absent, empty, 1..MaxN+1 valid
\* points, a malformed and an out-of-range segment, polylines of 0 and 2 points
AppQueries ==
    {None, Str(<<>>)}
    \cup {Str(ValidQuery(k)) : k \in 1..(MaxN + 1)}
    \cup { Str(PIPE \o <<"7">> \o PIPE \o PointA),
           Str(<<"9", "1", ",", "1", "8", "1">>),
           Str(ENC),
           Str(<<"?", "?", "@", "A">>) }

\* the interpolation argument: absent, supported, unsupported
InterpolationArgs == {<<FALSE, "">>, <<TRUE, "cubic">>, <<TRUE, "spline">>}

ElevationRequests ==
    { Request("/v1/<dataset_name>", d, m[1], m[2], q) :
        d \in {"test-dataset", "srtm"}, m \in InterpolationArgs, q \in AppQueries }

Requests ==
    {Request("/", "", FALSE, "", None), Request("/v1/", "", FALSE, "", None)}
    \cup ElevationRequests

\* requests of the concurrent scenario
ConcRequests ==
    { Request("/v1/<dataset_name>", "test-dataset", FALSE, "", Str(PointA)),
      Request("/v1/<dataset_name>", "test-dataset", FALSE, "", Str(ENC \o <<"?", "?">>)) }

\* a worker's locals
Frame(ret, config, datasets, exc, interpolation, lats, lons, dataset, elevations, feh) ==
    [ret |-> ret, config |-> config, datasets |-> datasets, exc |-> exc,
     interpolation |-> interpolation, lats |-> lats, lons |-> lons,
     dataset |-> dataset, elevations |-> elevations, from_error_handler |-> feh]

NoFrame == Frame("", ConfigBroken, DatasetsBroken, NoExc, "", <<>>, <<>>, "", <<>>, FALSE)

\* the flask-caching store: nothing cached under either key_prefix
EmptyCache ==
    [_load_config |-> [present |-> FALSE, val |-> ConfigBroken],
     _load_datasets |-> [present |-> FALSE, val |-> DatasetsBroken]]

Bump(n) == IF n < MaxCalls THEN n + 1 ELSE n

(***************************************************************************)
(* The app.  A worker serves one request at a time: the route's view       *)
(* function, then the after_request hook, then the response is delivered.  *)
(* A call of a @cache.cached function is up to three steps: the cache      *)
(* lookup and, on a miss, the computation and then the store, with other   *)
(* workers free to run in between; frame.ret says where the call returns.  *)
(***************************************************************************)
Goto(w, where) == pc' = [pc EXCEPT ![w] = where]

\* the view function returned rv (or raised, in debug mode): Flask runs
\* the after_request hooks on a response, and lets a raised exception leave
ViewReturns(w, out) ==
    /\ resp' = [resp EXCEPT ![w] = out.resp]
    /\ Goto(w, IF out.raised THEN "done" ELSE "after_request")

ViewResponds(w, r) == ViewReturns(w, [raised |-> FALSE, resp |-> r])

\* a request arrives at an idle worker
Accept(w, r) ==
    /\ pc[w] = "idle"
    /\ req' = [req EXCEPT ![w] = r]
    /\ frame' = [frame EXCEPT ![w] = NoFrame]
    /\ resp' = [resp EXCEPT ![w] = NoResponse]
    /\ Goto(w, "route")
    /\ UNCHANGED <<cacheType, debug, cfgFile, dsFile, cache, nLoads, parseVars>>

Receive(w) == \E r \in Requests : Accept(w, r)

ReceiveConc(w) == \E r \in ConcRequests : Accept(w, r)

\* api.py 247-249
HealthCheck(w) ==
    /\ pc[w] = "route"
    /\ req[w].route = "/"
    /\ ViewResponds(w, Response(200, "health", "", NoMsg, <<>>))
    /\ UNCHANGED <<cacheType, debug, cfgFile, dsFile, cache, nLoads, req, frame, parseVars>>

\* api.py 252-257
GetHelpMessage(w) ==
    /\ pc[w] = "route"
    /\ req[w].route = "/v1/"
    /\ ViewResponds(w, ErrorEnvelope(404, "INVALID_REQUEST", MsgHelp))
    /\ UNCHANGED <<cacheType, debug, cfgFile, dsFile, cache, nLoads, req, frame, parseVars>>

\* GetElevationBegin reading the interpolation argument without validating it
GetElevationBeginUnvalidated(w) ==
    /\ pc[w] = "route"
    /\ req[w].route = "/v1/<dataset_name>"
    /\ frame' = [frame EXCEPT ![w].interpolation =
                     IF req[w].has_interpolation THEN req[w].interpolation
                     ELSE DEFAULT_INTERPOLATION_METHOD,
                  ![w].ret = "ge_parse"]
    /\ Goto(w, "load_config")
    /\ UNCHANGED <<cacheType, debug, cfgFile, dsFile, cache, nLoads, req, resp, parseVars>>

\* api.py 271-277, up to the call of _load_config()
GetElevationBegin(w) ==
    /\ pc[w] = "route"
    /\ req[w].route = "/v1/<dataset_name>"
    /\ LET interpolation == IF req[w].has_interpolation THEN req[w].interpolation
                            ELSE DEFAULT_INTERPOLATION_METHOD
           e == ValidateInterpolation(interpolation)
       IN  IF e.type # "none"
           THEN /\ frame' = [frame EXCEPT ![w].exc = e]
                /\ ViewReturns(w, HandleException(e, debug))
           ELSE /\ frame' = [frame EXCEPT ![w].interpolation = interpolation,
                                          ![w].ret = "ge_parse"]
                /\ Goto(w, "load_config")
                /\ UNCHANGED resp
    /\ UNCHANGED <<cacheType, debug, cfgFile, dsFile, cache, nLoads, req, parseVars>>

\* api.py 39-40, @cache.cached(key_prefix="_load_config"): cache.get; the
\* null cache (DISABLE_MEMCACHE) never holds anything
LoadConfigLookup(w) ==
    /\ pc[w] = "load_config"
    /\ IF cacheType = "memcached" /\ cache._load_config.present
       THEN /\ frame' = [frame EXCEPT ![w].config = cache._load_config.val]
            /\ Goto(w, frame[w].ret)
       ELSE /\ Goto(w, "load_config_miss")
            /\ UNCHANGED frame
    /\ UNCHANGED <<cacheType, debug, cfgFile, dsFile, cache, nLoads, req, resp, parseVars>>

\* api.py 46 after a miss: the body, config.load_config().  A raised
\* ConfigError leaves the decorator; a value goes back to the decorator,
\* which stores it in a later step (the null cache has nothing to store)
LoadConfigCompute(w) ==
    /\ pc[w] = "load_config_miss"
    /\ nLoads' = [nLoads EXCEPT !._load_config = Bump(@)]
    /\ IF cfgFile.ok
       THEN /\ frame' = [frame EXCEPT ![w].config = cfgFile]
            /\ Goto(w, IF cacheType = "memcached" THEN "load_config_store"
                       ELSE frame[w].ret)
       ELSE /\ frame' = [frame EXCEPT ![w].exc = Exc("ConfigError", MsgConfigError)]
            /\ Goto(w, frame[w].ret)
    /\ UNCHANGED <<cacheType, debug, cfgFile, dsFile, cache, req, resp, parseVars>>

\* api.py 39, the decorator after the body returned: cache.set of the value
\* this call computed, then the value is returned
LoadConfigStore(w) ==
    /\ pc[w] = "load_config_store"
    /\ cache' = [cache EXCEPT !._load_config = [present |-> TRUE, val |-> frame[w].config]]
    /\ Goto(w, frame[w].ret)
    /\ UNCHANGED <<cacheType, debug, cfgFile, dsFile, nLoads, req, frame, resp, parseVars>>

\* api.py 276-281: _parse_locations with the limit just read, then the call
\* of _load_datasets() inside _get_dataset
GetElevationParse(w) ==
    /\ pc[w] = "ge_parse"
    /\ IF frame[w].exc.type # "none"
       THEN /\ ViewReturns(w, HandleException(frame[w].exc, debug))
            /\ UNCHANGED frame
       ELSE LET r == ParseLocations(req[w].locations,
                                    frame[w].config.max_locations_per_request)
            IN  IF ~r.ok
                THEN /\ frame' = [frame EXCEPT ![w].exc = Exc("ClientError", r.msg)]
                     /\ ViewReturns(w, HandleException(Exc("ClientError", r.msg), debug))
                ELSE /\ frame' = [frame EXCEPT ![w].lats = r.lats, ![w].lons = r.lons,
                                               ![w].ret = "ge_dataset"]
                     /\ Goto(w, "load_datasets")
                     /\ UNCHANGED resp
    /\ UNCHANGED <<cacheType, debug, cfgFile, dsFile, cache, nLoads, req, parseVars>>

\* api.py 219-220, @cache.cached(key_prefix="_load_datasets"): cache.get
LoadDatasetsLookup(w) ==
    /\ pc[w] = "load_datasets"
    /\ IF cacheType = "memcached" /\ cache._load_datasets.present
       THEN /\ frame' = [frame EXCEPT ![w].datasets = cache._load_datasets.val]
            /\ Goto(w, frame[w].ret)
       ELSE /\ Goto(w, "load_datasets_miss")
            /\ UNCHANGED frame
    /\ UNCHANGED <<cacheType, debug, cfgFile, dsFile, cache, nLoads, req, resp, parseVars>>

\* api.py 226 after a miss: the body, config.load_datasets()
LoadDatasetsCompute(w) ==
    /\ pc[w] = "load_datasets_miss"
    /\ nLoads' = [nLoads EXCEPT !._load_datasets = Bump(@)]
    /\ IF dsFile.ok
       THEN /\ frame' = [frame EXCEPT ![w].datasets = dsFile]
            /\ Goto(w, IF cacheType = "memcached" THEN "load_datasets_store"
                       ELSE frame[w].ret)
       ELSE /\ frame' = [frame EXCEPT ![w].exc = Exc("ConfigError", MsgConfigError)]
            /\ Goto(w, frame[w].ret)
    /\ UNCHANGED <<cacheType, debug, cfgFile, dsFile, cache, req, resp, parseVars>>

\* api.py 219, the decorator after the body returned: cache.set, return
LoadDatasetsStore(w) ==
    /\ pc[w] = "load_datasets_store"
    /\ cache' = [cache EXCEPT !._load_datasets = [present |-> TRUE, val |-> frame[w].datasets]]
    /\ Goto(w, frame[w].ret)
    /\ UNCHANGED <<cacheType, debug, cfgFile, dsFile, nLoads, req, frame, resp, parseVars>>

\* api.py 241-244 and 282: the lookup in the registry, then
\* backend.get_elevation is called
GetElevationDataset(w) ==
    /\ pc[w] = "ge_dataset"
    /\ IF frame[w].exc.type # "none"
       THEN /\ ViewReturns(w, HandleException(frame[w].exc, debug))
            /\ UNCHANGED frame
       ELSE IF req[w].dataset_name \notin frame[w].datasets.names
       THEN LET e == Exc("ClientError", MsgDataset(req[w].dataset_name))
            IN  /\ frame' = [frame EXCEPT ![w].exc = e]
                /\ ViewReturns(w, HandleException(e, debug))
       ELSE /\ frame' = [frame EXCEPT ![w].dataset = req[w].dataset_name]
            /\ Goto(w, "backend")
            /\ UNCHANGED resp
    /\ UNCHANGED <<cacheType, debug, cfgFile, dsFile, cache, nLoads, req, parseVars>>

\* what backend.get_elevation(lats, lons, dataset, interpolation) can do:
\* return one elevation per point, raise InputError, raise anything else
BackendOutcomes(lats) ==
    { [exc |-> NoExc, elevations |-> z] : z \in [1..Len(lats) -> Elevations] }
    \cup { [exc |-> Exc("InputError", MsgInputError), elevations |-> <<>>],
           [exc |-> Exc("Exception", MsgInternal), elevations |-> <<>>] }

\* api.py 282-300: the backend call ends; the response is assembled
BackendReturns(w) ==
    /\ pc[w] = "backend"
    /\ \E out \in BackendOutcomes(frame[w].lats) :
          IF out.exc.type # "none"
          THEN /\ frame' = [frame EXCEPT ![w].exc = out.exc]
               /\ ViewReturns(w, HandleException(out.exc, debug))
          ELSE /\ frame' = [frame EXCEPT ![w].elevations = out.elevations]
               /\ ViewResponds(w, Response(200, "results", "OK", NoMsg,
                      BuildResults(out.elevations, frame[w].lats, frame[w].lons)))
    /\ UNCHANGED <<cacheType, debug, cfgFile, dsFile, cache, nLoads, req, parseVars>>

\* api.py 50-52: the hook starts with a call of _load_config()
ApplyCorsBegin(w) ==
    /\ pc[w] = "after_request"
    /\ frame' = [frame EXCEPT ![w].ret = "cors_test", ![w].exc = NoExc]
    /\ Goto(w, "load_config")
    /\ UNCHANGED <<cacheType, debug, cfgFile, dsFile, cache, nLoads, req, resp, parseVars>>

\* an exception leaves an after_request hook: Flask re-raises it in debug
\* mode; otherwise it answers with its InternalServerError and runs the
\* hooks on that once more, and a second failure is only logged
HookRaises(w) ==
    IF debug
    THEN /\ resp' = [resp EXCEPT ![w] = Propagated]
         /\ Goto(w, "done")
         /\ UNCHANGED frame
    ELSE IF ~frame[w].from_error_handler
    THEN /\ resp' = [resp EXCEPT ![w] = FlaskInternalServerError]
         /\ frame' = [frame EXCEPT ![w].from_error_handler = TRUE]
         /\ Goto(w, "after_request")
    ELSE /\ Goto(w, "done")
         /\ UNCHANGED <<resp, frame>>

\* api.py 52: the test of the origin, then the second call of _load_config()
ApplyCorsTest(w) ==
    /\ pc[w] = "cors_test"
    /\ IF frame[w].exc.type # "none"
       THEN HookRaises(w)
       ELSE IF frame[w].config.access_control_allow_origin # ""
       THEN /\ frame' = [frame EXCEPT ![w].ret = "cors_set"]
            /\ Goto(w, "load_config")
            /\ UNCHANGED resp
       ELSE /\ Goto(w, "done")
            /\ UNCHANGED <<resp, frame>>
    /\ UNCHANGED <<cacheType, debug, cfgFile, dsFile, cache, nLoads, req, parseVars>>

\* ApplyCorsSet leaving error responses without the header
ApplyCorsSetOkOnly(w) ==
    /\ pc[w] = "cors_set"
    /\ IF frame[w].exc.type # "none"
       THEN HookRaises(w)
       ELSE /\ resp' = [resp EXCEPT ![w].headers =
                   IF resp[w].code >= 400 THEN @
                   ELSE {h \in @ : h[1] # ACAO}
                        \cup {<<ACAO, frame[w].config.access_control_allow_origin>>}]
            /\ Goto(w, "done")
            /\ UNCHANGED frame
    /\ UNCHANGED <<cacheType, debug, cfgFile, dsFile, cache, nLoads, req, parseVars>>

\* api.py 53-56: the header is set from the second read
ApplyCorsSet(w) ==
    /\ pc[w] = "cors_set"
    /\ IF frame[w].exc.type # "none"
       THEN HookRaises(w)
       ELSE /\ resp' = [resp EXCEPT ![w].headers =
                   {h \in @ : h[1] # ACAO}
                   \cup {<<ACAO, frame[w].config.access_control_allow_origin>>}]
            /\ Goto(w, "done")
            /\ UNCHANGED frame
    /\ UNCHANGED <<cacheType, debug, cfgFile, dsFile, cache, nLoads, req, parseVars>>

\* the response (or the exception) reaches the client; the worker is free
Deliver(w) ==
    /\ pc[w] = "done"
    /\ Goto(w, "idle")
    /\ req' = [req EXCEPT ![w] = NoRequest]
    /\ frame' = [frame EXCEPT ![w] = NoFrame]
    /\ resp' = [resp EXCEPT ![w] = NoResponse]
    /\ UNCHANGED <<cacheType, debug, cfgFile, dsFile, cache, nLoads, parseVars>>

Serve(w) ==
    \/ HealthCheck(w)
    \/ GetHelpMessage(w)
    \/ GetElevationBegin(w)
    \/ LoadConfigLookup(w)
    \/ LoadConfigCompute(w)
    \/ LoadConfigStore(w)
    \/ GetElevationParse(w)
    \/ LoadDatasetsLookup(w)
    \/ LoadDatasetsCompute(w)
    \/ LoadDatasetsStore(w)
    \/ GetElevationDataset(w)
    \/ BackendReturns(w)
    \/ ApplyCorsBegin(w)
    \/ ApplyCorsTest(w)
    \/ ApplyCorsSet(w)
    \/ Deliver(w)

\* the parser is not being called directly while the app runs
ParserAtRest ==
    /\ p_in = [locations |-> None, max_n_locations |-> 1]
    /\ p_out = [called |-> FALSE, r |-> Return(<<>>, <<>>)]

AppBlank(active) ==
    /\ cache = EmptyCache
    /\ nLoads = [_load_config |-> 0, _load_datasets |-> 0]
    /\ pc = [w \in Workers |-> IF w \in active THEN "idle" ELSE "off"]
    /\ req = [w \in Workers |-> NoRequest]
    /\ frame = [w \in Workers |-> NoFrame]
    /\ resp = [w \in Workers |-> NoResponse]

(***************************************************************************)
(* Spec: one worker serving requests one after another, in every           *)
(* configuration of the process.                                           *)
(***************************************************************************)
Init ==
    /\ cacheType \in {"null", "memcached"}
    /\ debug \in BOOLEAN
    /\ cfgFile \in ConfigFiles
    /\ dsFile \in DatasetFiles
    /\ AppBlank({1})
    /\ ParserAtRest

Next == \E w \in Workers : Receive(w) \/ Serve(w)

Spec == Init /\ [][Next]_vars

(***************************************************************************)
(* SpecConc: two workers serving elevation requests concurrently, in every *)
(* configuration of the process.                                           *)
(***************************************************************************)
InitConc ==
    /\ cacheType \in {"null", "memcached"}
    /\ debug \in BOOLEAN
    /\ cfgFile \in ConfigFiles
    /\ dsFile \in DatasetFiles
    /\ AppBlank(Workers)
    /\ ParserAtRest

NextConc ==
    \E w \in Workers :
        \/ ReceiveConc(w)
        \/ GetElevationBegin(w)
        \/ LoadConfigLookup(w)
        \/ LoadConfigCompute(w)
        \/ LoadConfigStore(w)
        \/ GetElevationParse(w)
        \/ LoadDatasetsLookup(w)
        \/ LoadDatasetsCompute(w)
        \/ LoadDatasetsStore(w)
        \/ GetElevationDataset(w)
        \/ BackendReturns(w)
        \/ ApplyCorsBegin(w)
        \/ ApplyCorsTest(w)
        \/ ApplyCorsSet(w)
        \/ Deliver(w)

SpecConc == InitConc /\ [][NextConc]_vars

(***************************************************************************)
(* SpecParse: _parse_locations called directly on every query and limit.   *)
(***************************************************************************)
InitParse ==
    /\ p_in \in [locations : Queries, max_n_locations : 1..MaxN]
    /\ p_out = [called |-> FALSE, r |-> Return(<<>>, <<>>)]
    /\ cacheType = "null"
    /\ debug = FALSE
    /\ cfgFile = ConfigBroken
    /\ dsFile = DatasetsBroken
    /\ AppBlank({})

CallParseLocations ==
    /\ ~p_out.called
    /\ p_out' = [called |-> TRUE,
                 r |-> ParseLocations(p_in.locations, p_in.max_n_locations)]
    /\ UNCHANGED <<p_in, appVars>>

NextParse == CallParseLocations

SpecParse == InitParse /\ [][NextParse]_vars

(***************************************************************************)
(* Properties.                                                             *)
(***************************************************************************)
ElevationRoute(w) == req[w].route = "/v1/<dataset_name>"

\* get_elevation has returned and the hooks have not run yet
ViewReturned(w) ==
    /\ pc[w] = "after_request"
    /\ ~frame[w].from_error_handler
    /\ ElevationRoute(w)

InLatRange(v) == IntLe(-90, v) /\ LeInt(v, 90)
InLonRange(v) == IntLe(-180, v) /\ LeInt(v, 180)

\* a segment is a valid "lat,lon": a comma, two floats, both in range
SegValid(seg) ==
    /\ Contains(seg, ",")
    /\ LET parts == Split1(seg, ",")
       IN  /\ Float(parts[1]).ok /\ Float(parts[2]).ok
           /\ InLatRange(Float(parts[1]).v)
           /\ InLonRange(Float(parts[2]).v)

\* the direct call was made on a delimited-pairs query
LatlonCalled ==
    /\ p_out.called
    /\ ~p_in.locations.isNone
    /\ Contains(p_in.locations.s, ",")

\* its segments, after stripping leading/trailing '|'
InSegs == Split(Strip(p_in.locations.s, "|"), "|")

\* the first failing step of a request, in the order interpolation,
\* locations (with the configured limit), dataset; type "none" if all pass
FirstFailure(r) ==
    LET method == IF r.has_interpolation THEN r.interpolation ELSE "bilinear"
        parsed == ParseLocations(r.locations, cfgFile.max_locations_per_request)
    IN  IF method \notin INTERPOLATION_METHODS
        THEN [type |-> "ClientError", code |-> 400, msg |-> MsgInterpolation(method)]
        ELSE IF ~cfgFile.ok
        THEN [type |-> "ConfigError", code |-> 500, msg |-> MsgConfigError]
        ELSE IF ~parsed.ok
        THEN [type |-> "ClientError", code |-> 400, msg |-> parsed.msg]
        ELSE IF ~dsFile.ok
        THEN [type |-> "ConfigError", code |-> 500, msg |-> MsgConfigError]
        ELSE IF r.dataset_name \notin dsFile.names
        THEN [type |-> "ClientError", code |-> 400, msg |-> MsgDataset(r.dataset_name)]
        ELSE [type |-> "none", code |-> 200, msg |-> NoMsg]

\* C1: get_elevation validates the interpolation, parses the locations,
\* resolves the dataset and only then calls the backend; its response reports
\* the error of the first of these steps that fails, and while the backend
\* call is in flight all three have succeeded.
C1_FirstFailureReported ==
    \A w \in Workers :
        /\ ViewReturned(w) =>
              LET f == FirstFailure(req[w])
              IN  IF f.type # "none"
                  THEN /\ resp[w].code = f.code
                       /\ resp[w].shape = "envelope"
                       /\ resp[w].error = f.msg
                  ELSE frame[w].exc.type \in {"none", "InputError", "Exception"}
        /\ pc[w] = "backend" => FirstFailure(req[w]).type = "none"

C1_Witness ==
    \E w \in Workers :
        /\ ViewReturned(w)
        /\ req[w].interpolation = "spline"
        /\ req[w].dataset_name = "srtm"
        /\ dsFile.ok
        /\ resp[w].error = MsgInterpolation("spline")

\* C2: an OK response has one result per parsed point, the i-th carrying
\* the i-th parsed (lat, lng) and the i-th elevation the backend returned.
C2_ResultsMirrorInput ==
    \A w \in Workers :
        (ViewReturned(w) /\ resp[w].status = "OK") =>
            LET parsed == ParseLocations(req[w].locations,
                                         cfgFile.max_locations_per_request)
            IN  /\ Len(resp[w].results) = Len(parsed.lats)
                /\ \A i \in 1..Len(parsed.lats) :
                      /\ resp[w].results[i].lat = parsed.lats[i]
                      /\ resp[w].results[i].lng = parsed.lons[i]
                      /\ resp[w].results[i].elevation = frame[w].elevations[i]

C2_Witness ==
    \E w \in Workers :
        /\ ViewReturned(w)
        /\ resp[w].status = "OK"
        /\ req[w].locations = Str(ValidQuery(2))
        /\ Len(resp[w].results) = 2
        /\ resp[w].results[1].elevation # resp[w].results[2].elevation
        /\ resp[w].results[1].lat = Norm(90, 0)
        /\ resp[w].results[2].lat = Norm(-90, 0)

\* C3: every batch handed to the backend has between 1 and
\* max_locations_per_request points.
C3_BatchNonEmpty ==
    \A w \in Workers :
        pc[w] = "backend" =>
            /\ 1 <= Len(frame[w].lats)
            /\ Len(frame[w].lats) <= frame[w].config.max_locations_per_request

\* C4: a delimited query with more segments than the limit fails with the
\* "Too many locations" error citing count and limit whatever its segments
\* are, and one with exactly the limit, all segments valid, is accepted.
C4_SizeCheckFirst ==
    LatlonCalled =>
        LET n == Len(InSegs)
            max == p_in.max_n_locations
        IN  /\ n > max => p_out.r = RaiseClientError(MsgTooMany(n, max))
            /\ (n = max /\ \A i \in 1..n : SegValid(InSegs[i])) =>
                  (p_out.r.ok /\ Len(p_out.r.lats) = n /\ Len(p_out.r.lons) = n)

C4_Witness ==
    /\ LatlonCalled
    /\ Len(InSegs) = p_in.max_n_locations + 1
    /\ ~SegValid(InSegs[1])
    /\ p_out.r.msg.kind = "TooMany"
    /\ p_out.r.msg.n = Len(InSegs)
    /\ p_out.r.msg.limit = p_in.max_n_locations

\* C9: every point _parse_latlon_locations returns is within [-90, 90] x
\* [-180, 180], the boundaries themselves are accepted, and a segment whose
\* latitude is out of range is rejected citing the latitude bounds.
C9_BoundsInclusiveLatFirst ==
    LatlonCalled =>
        /\ p_out.r.ok =>
              \A i \in 1..Len(p_out.r.lats) :
                  InLatRange(p_out.r.lats[i]) /\ InLonRange(p_out.r.lons[i])
        /\ p_in.locations.s = PointA =>
              (p_out.r.ok /\ p_out.r.lats = <<Norm(90, 0)>> /\ p_out.r.lons = <<Norm(180, 0)>>)
        /\ p_in.locations.s = PointB =>
              (p_out.r.ok /\ p_out.r.lats = <<Norm(-90, 0)>> /\ p_out.r.lons = <<Norm(-180, 0)>>)
        /\ p_out.r.msg.kind \in {"Latitude", "Longitude"} =>
              LET parts == Split1(InSegs[p_out.r.msg.pos], ",")
                  latOk == InLatRange(Float(parts[1]).v)
              IN  /\ p_out.r.msg.kind = "Latitude" <=> ~latOk
                  /\ p_out.r.msg.kind = "Latitude" =>
                        (p_out.r.msg.n = -90 /\ p_out.r.msg.limit = 90)

C9_Witness ==
    /\ LatlonCalled
    /\ p_out.r.msg.kind = "Latitude"
    /\ LET parts == Split1(InSegs[p_out.r.msg.pos], ",")
       IN  ~InLatRange(Float(parts[1]).v) /\ ~InLonRange(Float(parts[2]).v)

\* C10: a delimited query within the limit with an invalid segment fails
\* citing the 1-based position (after stripping '|') of the first invalid
\* segment, and returns no points.
C10_FirstInvalidCited ==
    (LatlonCalled /\ Len(InSegs) <= p_in.max_n_locations
        /\ \E i \in 1..Len(InSegs) : ~SegValid(InSegs[i])) =>
        LET first == CHOOSE i \in 1..Len(InSegs) :
                        ~SegValid(InSegs[i]) /\ \A j \in 1..(i - 1) : SegValid(InSegs[j])
        IN  /\ ~p_out.r.ok
            /\ p_out.r.msg.kind \in {"NoComma", "NotNumeric", "Latitude", "Longitude"}
            /\ p_out.r.msg.pos = first
            /\ p_out.r.msg.seg = InSegs[first]
            /\ p_out.r.lats = <<>>
            /\ p_out.r.lons = <<>>

C10_Witness ==
    /\ LatlonCalled
    /\ Head(p_in.locations.s) = "|"
    /\ Len(InSegs) = 2
    /\ SegValid(InSegs[1])
    /\ ~SegValid(InSegs[2])
    /\ ~p_out.r.ok
    /\ p_out.r.msg.pos = 2

\* C5: the response get_elevation returns is decided by the kind of the
\* exception raised: none gives 200/OK, ClientError and InputError give
\* 400/INVALID_REQUEST with the exception's message, ConfigError gives
\* 500/SERVER_ERROR, anything else (not in debug mode) gives 500/SERVER_ERROR
\* with the fixed retry message and not the exception's text.
C5_OutcomeByFailureKind ==
    \A w \in Workers :
        ViewReturned(w) =>
            LET e == frame[w].exc
                r == resp[w]
            IN  CASE e.type = "none" -> r.code = 200 /\ r.status = "OK"
                  [] e.type \in {"ClientError", "InputError"} ->
                        r.code = 400 /\ r.status = "INVALID_REQUEST" /\ r.error = e.msg
                  [] e.type = "ConfigError" -> r.code = 500 /\ r.status = "SERVER_ERROR"
                  [] OTHER ->
                        /\ ~debug
                        /\ r.code = 500 /\ r.status = "SERVER_ERROR"
                        /\ r.error = MsgServerError /\ r.error # e.msg

C5_Witness ==
    \E w \in Workers :
        /\ ViewReturned(w)
        /\ frame[w].exc = Exc("Exception", MsgInternal)
        /\ resp[w].error = MsgServerError

\* C6: when config.load_config always raises ConfigError, the response an
\* elevation request finally gets, after apply_cors has run, is the 500
\* SERVER_ERROR envelope (stated for the app outside debug mode and for a
\* request whose interpolation is supported, so that get_elevation itself
\* meets the ConfigError).
C6_ConfigErrorEnvelope ==
    \A w \in Workers :
        (pc[w] = "done" /\ ElevationRoute(w) /\ ~cfgFile.ok /\ ~debug
            /\ FirstFailure(req[w]).type = "ConfigError") =>
            /\ resp[w].code = 500
            /\ resp[w].shape = "envelope"
            /\ resp[w].status = "SERVER_ERROR"

\* C7: with a non-empty access_control_allow_origin configured, every
\* response (health check, help, results, 400 and 500 envelopes) carries the
\* header with that value; with an empty one, none does.
C7_CorsOnEveryResponse ==
    \A w \in Workers :
        (pc[w] = "done" /\ cfgFile.ok
            /\ resp[w].shape \in {"health", "envelope", "results"}) =>
            LET origin == cfgFile.access_control_allow_origin
            IN  IF origin # ""
                THEN {h \in resp[w].headers : h[1] = ACAO} = {<<ACAO, origin>>}
                ELSE {h \in resp[w].headers : h[1] = ACAO} = {}

C7_Witness ==
    \E w \in Workers :
        /\ pc[w] = "done"
        /\ resp[w].code = 500
        /\ resp[w].shape = "envelope"
        /\ <<ACAO, "*">> \in resp[w].headers

\* C8 as claimed, in the case most favourable to it (memcached in use and
\* loads that succeed): across any interleaving of concurrent requests and
\* absent an invalidation (the app has none), config.load_config and
\* config.load_datasets are each computed at most once.
C8_ComputedAtMostOnce ==
    (cacheType = "memcached" /\ cfgFile.ok /\ dsFile.ok) =>
        /\ nLoads._load_config <= 1
        /\ nLoads._load_datasets <= 1
====
